---- MODULE Spec2Model ----
(***************************************************************************)
(* The network attachment engine of the two rocket network plugins:        *)
(*   networking/net/bridge/bridge.go  (veth pair + shared bridge)          *)
(*   networking/net/veth/veth.go      (point-to-point veth pair)           *)
(*                                                                         *)
(* One plugin process runs per invocation (ADD or DEL).  The host kernel   *)
(* (the device under each bridge name, the veth pairs) is the shared       *)
(* state; every kernel call of an invocation is one step, so concurrent    *)
(* invocations interleave at the granularity of kernel calls.              *)
(***************************************************************************)
EXTENDS Integers, Sequences, FiniteSets, TLC

VARIABLES
    links,   \* host namespace: the device found under each bridge name
    veths,   \* the veth pairs that exist (container end + host end)
    proc,    \* per worker slot: the plugin process running in it
    hist,    \* the runtime (how it issues invocations, how many are left) and
             \* bookkeeping over the whole run
    gw       \* inputs and results of the gateway computation on its own

vars == <<links, veths, proc, hist, gw>>

Nil == "nil"

\* A nil net.IP, and a nil *net.IPNet.
NilIP == <<>>

NilIPNet == [IP |-> NilIP, Mask |-> 0]

(***************************************************************************)
(* Bounds of the model.                                                    *)
(***************************************************************************)
\* How many invocations a runtime that issues them one at a time issues.
MaxInvocations == 2

Procs == {1, 2}

(***************************************************************************)
(* IPv4 addresses are 4-tuples of octets, an IPNet is [IP, Mask] with the  *)
(* mask given by its prefix length.                                        *)
(***************************************************************************)
RECURSIVE Pow2(_)
Pow2(n) == IF n = 0 THEN 1 ELSE 2 * Pow2(n - 1)

\* How many of the prefix's one-bits fall into octet i (1..4).
MaskBits(plen, i) ==
    LET k == plen - 8 * (i - 1)
    IN  IF k < 0 THEN 0 ELSE IF k > 8 THEN 8 ELSE k

\* net.IP.Mask: octet-wise AND with the mask.
IPMask(ip, plen) ==
    [i \in 1..4 |-> ip[i] - (ip[i] % Pow2(8 - MaskBits(plen, i)))]

\* util.NextIP: the address incremented by one (carry into higher octets).
NextIP(ip) ==
    IF ip[4] < 255 THEN [ip EXCEPT ![4] = ip[4] + 1]
    ELSE IF ip[3] < 255 THEN [ip EXCEPT ![4] = 0, ![3] = ip[3] + 1]
    ELSE IF ip[2] < 255 THEN [ip EXCEPT ![4] = 0, ![3] = 0, ![2] = ip[2] + 1]
    ELSE [ip EXCEPT ![4] = 0, ![3] = 0, ![2] = 0, ![1] = ip[1] + 1]

calcGatewayIP_NoMask(ipn) == NextIP(ipn.IP)

\* bridge.go calcGatewayIP: network identifier, then the next address.
calcGatewayIP(ipn) ==
    LET nid == IPMask(ipn.IP, ipn.Mask)
    IN  NextIP(nid)

\* net.IP.String / net.IPNet.String: dotted quad, "/", prefix length.
IPString(ip) ==
    IF ip = NilIP THEN "<nil>"
    ELSE ToString(ip[1]) \o "." \o ToString(ip[2]) \o "." \o
         ToString(ip[3]) \o "." \o ToString(ip[4])

IPNetString(ipn) == IPString(ipn.IP) \o "/" \o ToString(ipn.Mask)

IPNet(ip, plen) == [IP |-> ip, Mask |-> plen]

(***************************************************************************)
(* Inputs of an invocation, drawn from small sets.                         *)
(***************************************************************************)
defaultBrName == "rkt0"

Plugins == {"bridge", "veth"}

\* RKT_NETPLUGIN_COMMAND: the two verbs, an unknown verb, or unset.
Commands == {"ADD", "DEL", "VERSION", ""}

\* RKT_NETPLUGIN_CONTID: c1, c2 are UUID-shaped, zz is not; "" is unset.
UUIDs == {"c1", "c2"}
ContIDs == UUIDs \cup {"zz"}

\* RKT_NETPLUGIN_NETNS: each container has its own namespace.
NetnsOf(contID) == "/ns/" \o contID

\* RKT_NETPLUGIN_IFNAME
IfNames == {"eth0", "eth1"}

\* RKT_NETPLUGIN_NETCONF: the descriptor files LoadNet may be pointed at.
\* A descriptor without brName keeps the default the caller put in.
NetConfFile(name) ==
    CASE name = "gw.conf"   -> [ok |-> TRUE,  BrName |-> Nil,   IsGW |-> TRUE]
      [] name = "nogw.conf" -> [ok |-> TRUE,  BrName |-> "rkt0", IsGW |-> FALSE]
      [] OTHER              -> [ok |-> FALSE, BrName |-> Nil,   IsGW |-> FALSE]

NetConfs == {"gw.conf", "nogw.conf", "bad.conf"}

BrNames == {"rkt0"}

\* What the address-management plugin may hand back: the assigned address
\* with its prefix, and optionally a gateway.
IpamResults ==
    { [IP |-> IPNet(<<10, 2, 0, 5>>, 24), Gateway |-> NilIP],
      [IP |-> IPNet(<<10, 2, 0, 6>>, 24), Gateway |-> NilIP],
      [IP |-> IPNet(<<10, 3, 0, 5>>, 24), Gateway |-> <<10, 3, 0, 254>>] }

(***************************************************************************)
(* The environment of a plugin process: the five required variables (the   *)
(* veth plugin also reads RKT_NETPLUGIN_ARGS, which it does not require).  *)
(* An environment has every variable set, or exactly one unset, or none    *)
(* set at all.                                                             *)
(***************************************************************************)
EnvNames == {"COMMAND", "CONTID", "NETNS", "IFNAME", "NETCONF"}

Env(c, id, i, f) ==
    [COMMAND |-> c, CONTID |-> id, NETNS |-> NetnsOf(id), IFNAME |-> i, NETCONF |-> f]

\* The interfaces the runtime asks for: two in container c1, one in each of
\* the others.
Targets == {<<"c1", "eth0">>, <<"c1", "eth1">>, <<"c2", "eth0">>, <<"zz", "eth0">>}

FullEnvs ==
    { Env("ADD", t[1], t[2], "gw.conf") : t \in Targets }
    \cup { Env("ADD", "c1", "eth0", f) : f \in NetConfs }
    \cup { Env("DEL", t[1], t[2], "gw.conf") : t \in Targets }

\* What a runtime that issues one invocation at a time may pass.
Envs ==
    FullEnvs
    \cup { Env("VERSION", "c1", "eth0", "gw.conf") }
    \cup { [Env(c, "c1", "eth0", "gw.conf") EXCEPT ![v] = ""] : c \in {"ADD", "DEL"}, v \in EnvNames }
    \cup { [v \in EnvNames |-> ""] }

\* What a runtime that attaches two containers at once passes.
ParallelEnvs == { Env("ADD", id, "eth0", "gw.conf") : id \in UUIDs }

(***************************************************************************)
(* The runtime.  It either issues its invocations one at a time (serial),  *)
(* any plugin with any environment, or attaches two containers to the      *)
(* bridge network at once (parallel) on a host without the bridge.         *)
(***************************************************************************)
Runtimes ==
    { [mode |-> "serial",   left |-> MaxInvocations, ensured |-> {}, created |-> {}],
      [mode |-> "parallel", left |-> Cardinality(UUIDs), ensured |-> {}, created |-> {}] }

PluginsOf(mode) == IF mode = "serial" THEN Plugins ELSE {"bridge"}

EnvsOf(mode) == IF mode = "serial" THEN Envs ELSE ParallelEnvs

(***************************************************************************)
(* Host kernel state.                                                      *)
(***************************************************************************)
NoDevice == [kind |-> "absent", up |-> FALSE, addrs |-> {}]

GwA == IPNet(<<10, 2, 0, 1>>, 24)
GwB == IPNet(<<10, 3, 0, 254>>, 24)

\* What may already sit under a bridge name when the first invocation runs.
InitDevices ==
    { NoDevice,
      [kind |-> "dummy",  up |-> FALSE, addrs |-> {}],
      [kind |-> "bridge", up |-> FALSE, addrs |-> {}],
      [kind |-> "bridge", up |-> TRUE,  addrs |-> {GwA}],
      [kind |-> "bridge", up |-> FALSE, addrs |-> {GwA}],
      [kind |-> "bridge", up |-> TRUE,  addrs |-> {GwB}],
      [kind |-> "bridge", up |-> TRUE,  addrs |-> {GwA, GwB}] }

\* A veth pair: the container end ifName inside netns, the host end under
\* name host in the host namespace.
Veth(netns, ifName, host) ==
    [netns |-> netns, ifName |-> ifName, host |-> host, master |-> Nil,
     addrs |-> {}, routes |-> {}, configured |-> FALSE]

(***************************************************************************)
(* A plugin process.  pc is the statement it is about to execute; ns is    *)
(* the network namespace its (locked) OS thread is in.  ops lists the      *)
(* kernel calls it has issued, in order; fault tells whether the kernel    *)
(* failed one of its calls for a reason outside the model (EPERM, ENOMEM). *)
(* brBefore is the bridge device as ensureBridge found it, prior whether   *)
(* an earlier ensureBridge with the same arguments had succeeded by then,  *)
(* made whether this invocation created a veth pair, probe what            *)
(* DelLinkByName found, kerr the calls that returned an error, each with   *)
(* the kind of error.                                                      *)
(***************************************************************************)
\* The zero values of Net and of *ipam.IPConfig, and the snapshot of the
\* bridge device before ensureBridge has looked at it.
NoNet == [BrName |-> "", IsGW |-> FALSE]

NoIPConfig == [IP |-> NilIPNet, Gateway |-> NilIP]

NotSeen == [kind |-> "unseen", up |-> FALSE, addrs |-> {}]

IdleProc ==
    [pc |-> "idle", plugin |-> Nil, env |-> [v \in EnvNames |-> ""], missing |-> {},
     n |-> NoNet, ipConf |-> NoIPConfig, gwn |-> NilIPNet, br |-> Nil, hostVethName |-> "",
     hostVeth |-> "", ns |-> "host", fnErr |-> Nil, nsRet |-> Nil, err |-> Nil, status |-> -1, out |-> NilIP,
     ops |-> <<>>, fault |-> FALSE, brBefore |-> NotSeen, prior |-> FALSE,
     made |-> FALSE, probe |-> "", kerr |-> {}]

\* cmdAdd or cmdDel returns err to main.
Exit(r, err) == [r EXCEPT !.pc = "main:exit", !.err = err]

\* os.Exit(1) in main before anything was started: what is left is the exit
\* status (and, for the record, the environment that was refused).
Refused(r) == [r EXCEPT !.pc = "exited", !.status = 1]

\* The process has ended: what is left of it is its exit status.
Exited(status) == [IdleProc EXCEPT !.pc = "exited", !.status = status]

\* The runtime may start an invocation in slot p.
CanStart(p) ==
    /\ proc[p].pc \in {"idle", "exited"}
    /\ hist.left > 0
    /\ hist.mode = "serial" => p = 1

\* The kernel call op is issued from the namespace the thread is in.
Issue(r, op) == [r EXCEPT !.ops = Append(@, <<op, r.ns>>)]

Faulted(r) == [r EXCEPT !.fault = TRUE]

\* The call op returned the error errno to the process.
Err(r, op, errno) == [r EXCEPT !.kerr = @ \cup {<<op, errno>>}]

\* The call op failed for a reason of the kernel's own.
Fail(r, op) == Err(Faulted(r), op, "EIO")

Set(p, r) == proc' = [proc EXCEPT ![p] = r]

Running(p) == proc[p].pc \notin {"idle", "exited"}

NoGw == [phase |-> "off", a |-> NilIP, b |-> NilIP, plen |-> 0, outA |-> NilIP, outB |-> NilIP]

Init ==
    /\ hist \in Runtimes
    /\ links \in [BrNames -> IF hist.mode = "serial" THEN InitDevices ELSE {NoDevice}]
    /\ veths = {}
    /\ proc = [p \in Procs |-> IdleProc]
    /\ gw = NoGw

(***************************************************************************)
(* main (both plugins): read the environment, check it, dispatch.          *)
(***************************************************************************)
main_NoNetnsCheck(p) ==
    /\ CanStart(p)
    /\ \E plugin \in PluginsOf(hist.mode), env \in EnvsOf(hist.mode) :
         LET r == [IdleProc EXCEPT !.plugin = plugin, !.env = env,
                       !.missing = {v \in EnvNames : env[v] = ""}]
         IN  proc' = [proc EXCEPT ![p] =
                 IF env.COMMAND = "" \/ env.CONTID = "" \/ env.IFNAME = "" \/ env.NETCONF = ""
                 THEN Refused(r)
                 ELSE IF env.COMMAND = "ADD" THEN [r EXCEPT !.pc = plugin \o ":cmdAdd"]
                 ELSE IF env.COMMAND = "DEL" THEN [r EXCEPT !.pc = plugin \o ":cmdDel"]
                 ELSE Refused(r)]
    /\ hist' = [hist EXCEPT !.left = @ - 1]
    /\ UNCHANGED <<links, veths, gw>>

main(p) ==
    /\ CanStart(p)
    /\ \E plugin \in PluginsOf(hist.mode), env \in EnvsOf(hist.mode) :
         LET r == [IdleProc EXCEPT !.plugin = plugin, !.env = env,
                       !.missing = {v \in EnvNames : env[v] = ""}]
         IN  proc' = [proc EXCEPT ![p] =
                 IF \E v \in EnvNames : env[v] = ""
                 THEN Refused(r)
                 ELSE IF env.COMMAND = "ADD" THEN [r EXCEPT !.pc = plugin \o ":cmdAdd"]
                 ELSE IF env.COMMAND = "DEL" THEN [r EXCEPT !.pc = plugin \o ":cmdDel"]
                 ELSE Refused(r)]
    /\ hist' = [hist EXCEPT !.left = @ - 1]
    /\ UNCHANGED <<links, veths, gw>>

\* main, lines 246-249 (132-135 in veth.go): exit status 1 with a log line
\* if the command returned an error, 0 otherwise.
main_exit(p) ==
    LET r == proc[p]
    IN  /\ r.pc = "main:exit"
        /\ Set(p, Exited(IF r.err # Nil THEN 1 ELSE 0))
        /\ UNCHANGED <<links, veths, hist, gw>>

(***************************************************************************)
(* Collaborators outside the two plugin files.                             *)
(***************************************************************************)
\* types.NewUUID accepts only UUID-shaped identifiers.
NewUUID_ok(contID) == contID \in UUIDs

\* rktnet.LoadNet(path, n): fills n from the descriptor, or fails; a field the
\* descriptor does not name keeps the value n came with.
LoadNet(path, n) ==
    LET f == NetConfFile(path)
    IN  [ok |-> f.ok,
         n  |-> [BrName |-> IF f.BrName = Nil THEN n.BrName ELSE f.BrName,
                 IsGW   |-> f.IsGW]]

\* netlink.LinkAdd of a bridge: EEXIST when the name is taken.
LinkAdd_EEXIST(name) == links[name].kind # "absent"

NewBridge == [kind |-> "bridge", up |-> FALSE, addrs |-> {}]

\* netlink.AddrAdd: EEXIST when the device already carries that address.
AddrAdd_EEXIST(name, ipn) == ipn \in links[name].addrs

Ensured(r) == <<r.n.BrName, IPNetString(r.gwn)>>

(***************************************************************************)
(* bridge plugin, cmdAdd up to the bridge.                                 *)
(***************************************************************************)
\* cmdAdd, lines 181-191: parse the container ID, load the descriptor.
bridge_cmdAdd(p) ==
    LET r == proc[p]
        l == LoadNet(r.env.NETCONF, [BrName |-> defaultBrName, IsGW |-> FALSE])
    IN  /\ r.pc = "bridge:cmdAdd"
        /\ Set(p, IF ~NewUUID_ok(r.env.CONTID) THEN Exit(Err(r, "NewUUID", "EINVAL"), "error parsing ContainerID")
                  ELSE IF ~l.ok THEN Exit(Err(r, "LoadNet", "EINVAL"), "failed to load")
                  ELSE [r EXCEPT !.n = l.n, !.pc = "bridge:ExecPlugin"])
        /\ UNCHANGED <<links, veths, hist, gw>>

\* cmdAdd looking at the plugin's error only later.
bridge_ExecPlugin_Deferred(p) ==
    LET r == proc[p]
    IN  /\ r.pc = "bridge:ExecPlugin"
        /\ \E ok \in BOOLEAN, res \in IpamResults :
             Set(p, IF ~ok THEN [Err(r, "ExecPlugin", "EIO") EXCEPT !.err = "ipam plugin failed", !.ipConf = res,
                                          !.pc = "bridge:setupBridge"]
                    ELSE [r EXCEPT !.ipConf = res, !.pc = "bridge:setupBridge"])
        /\ UNCHANGED <<links, veths, hist, gw>>

\* cmdAdd, lines 193-197: run the address-management plugin.
bridge_ExecPlugin(p) ==
    LET r == proc[p]
    IN  /\ r.pc = "bridge:ExecPlugin"
        /\ \E ok \in BOOLEAN, res \in IpamResults :
             Set(p, IF ~ok THEN Exit(Err(r, "ExecPlugin", "EIO"), "ipam plugin failed")
                    ELSE [r EXCEPT !.ipConf = res, !.pc = "bridge:setupBridge"])
        /\ UNCHANGED <<links, veths, hist, gw>>

\* setupBridge taking the gateway as the plugin gave it.
setupBridge_NoCalc(n, ipamConf) ==
    IF n.IsGW THEN [IP |-> ipamConf.Gateway, Mask |-> ipamConf.IP.Mask] ELSE NilIPNet

\* setupBridge asking for the gateway address whatever the flag says.
setupBridge_IgnoreFlag(n, ipamConf) ==
    LET gw0 == IF ipamConf.Gateway # NilIP THEN ipamConf.Gateway
               ELSE calcGatewayIP(ipamConf.IP)
    IN  [IP |-> gw0, Mask |-> ipamConf.IP.Mask]

\* setupBridge, lines 156-169: the address the bridge is to carry.
setupBridge(n, ipamConf) ==
    IF n.IsGW
    THEN LET gw0 == IF ipamConf.Gateway # NilIP THEN ipamConf.Gateway
                    ELSE calcGatewayIP(ipamConf.IP)
         IN  [IP |-> gw0, Mask |-> ipamConf.IP.Mask]
    ELSE NilIPNet

\* setupBridge calls ensureBridge, lines 85-102: netlink.LinkAdd.
ensureBridge(p) ==
    LET r0 == proc[p]
        r  == Issue([r0 EXCEPT !.gwn = setupBridge(r0.n, r0.ipConf)], "LinkAdd")
        name == r.n.BrName
        r1 == [r EXCEPT !.brBefore = links[name], !.prior = Ensured(r) \in hist.ensured]
    IN  /\ r0.pc = "bridge:setupBridge"
        /\ \E fail \in BOOLEAN :
             IF fail
             THEN /\ Set(p, Exit(Fail(r1, "LinkAdd"), "could not add bridge"))
                  /\ UNCHANGED links
             ELSE IF LinkAdd_EEXIST(name)
             THEN /\ Set(p, [Err(r1, "LinkAdd", "EEXIST") EXCEPT !.pc = "bridge:bridgeByName"])
                  /\ UNCHANGED links
             ELSE /\ Set(p, [r1 EXCEPT !.br = name, !.pc = "bridge:LinkSetUp"])
                  /\ links' = [links EXCEPT ![name] = NewBridge]
        /\ UNCHANGED <<veths, hist, gw>>

\* bridgeByName taking whatever device has the name.
bridgeByName_AnyKind(p) ==
    LET r == Issue(proc[p], "LinkByName")
        name == r.n.BrName
    IN  /\ proc[p].pc = "bridge:bridgeByName"
        /\ \E fail \in BOOLEAN :
             Set(p, IF fail \/ links[name].kind = "absent"
                    THEN Exit(IF fail THEN Fail(r, "LinkByName") ELSE Err(r, "LinkByName", "ENODEV"), "could not lookup")
                    ELSE [r EXCEPT !.br = name, !.pc = "bridge:LinkSetUp"])
        /\ UNCHANGED <<links, veths, hist, gw>>

\* bridgeByName, lines 73-83: look the device up, insist on a bridge.
bridgeByName(p) ==
    LET r == Issue(proc[p], "LinkByName")
        name == r.n.BrName
    IN  /\ proc[p].pc = "bridge:bridgeByName"
        /\ \E fail \in BOOLEAN :
             Set(p, IF fail \/ links[name].kind = "absent"
                    THEN Exit(IF fail THEN Fail(r, "LinkByName") ELSE Err(r, "LinkByName", "ENODEV"), "could not lookup")
                    ELSE IF links[name].kind # "bridge"
                    THEN Exit(r, "already exists but is not a bridge")
                    ELSE [r EXCEPT !.br = name, !.pc = "bridge:LinkSetUp"])
        /\ UNCHANGED <<links, veths, hist, gw>>

\* ensureBridge going on whether or not the bridge could be brought up.
ensureBridge_LinkSetUp_Ignore(p) ==
    LET r == Issue(proc[p], "LinkSetUp")
    IN  /\ proc[p].pc = "bridge:LinkSetUp"
        /\ \E fail \in BOOLEAN :
             LET r1 == IF fail THEN Fail(r, "LinkSetUp") ELSE r
             IN  /\ links' = IF fail THEN links ELSE [links EXCEPT ![r.br].up = TRUE]
                 /\ IF r.gwn # NilIPNet
                    THEN /\ Set(p, [r1 EXCEPT !.pc = "bridge:ensureBridgeAddr"])
                         /\ UNCHANGED hist
                    ELSE /\ Set(p, [r1 EXCEPT !.pc = "bridge:setupVeth"])
                         /\ hist' = [hist EXCEPT !.ensured = @ \cup {Ensured(r)}]
        /\ UNCHANGED <<veths, gw>>

\* ensureBridge, lines 104-113: bring the bridge up; without a requested
\* address that is all.
ensureBridge_LinkSetUp(p) ==
    LET r == Issue(proc[p], "LinkSetUp")
    IN  /\ proc[p].pc = "bridge:LinkSetUp"
        /\ \E fail \in BOOLEAN :
             IF fail
             THEN /\ Set(p, Exit(Fail(r, "LinkSetUp"), "could not set bridge up"))
                  /\ UNCHANGED <<links, hist>>
             ELSE /\ links' = [links EXCEPT ![r.br].up = TRUE]
                  /\ IF r.gwn # NilIPNet
                     THEN /\ Set(p, [r EXCEPT !.pc = "bridge:ensureBridgeAddr"])
                          /\ UNCHANGED hist
                     ELSE /\ Set(p, [r EXCEPT !.pc = "bridge:setupVeth"])
                          /\ hist' = [hist EXCEPT !.ensured = @ \cup {Ensured(r)}]
        /\ UNCHANGED <<veths, gw>>

\* ensureBridgeAddr comparing the address alone with address/prefix.
ensureBridgeAddr_NoMatch(p) ==
    LET r == Issue(proc[p], "AddrList")
        addrs == links[r.br].addrs
        ipnStr == IPNetString(r.gwn)
    IN  /\ proc[p].pc = "bridge:ensureBridgeAddr"
        /\ \E fail \in BOOLEAN :
             IF fail
             THEN /\ Set(p, Exit(Fail(r, "AddrList"), "could not get list of IP addresses"))
                  /\ UNCHANGED hist
             ELSE IF addrs # {}
             THEN IF \E a \in addrs : IPString(a.IP) = ipnStr
                  THEN /\ Set(p, [r EXCEPT !.pc = "bridge:setupVeth"])
                       /\ hist' = [hist EXCEPT !.ensured = @ \cup {Ensured(r)}]
                  ELSE /\ Set(p, Exit(r, "already has an IP address different"))
                       /\ UNCHANGED hist
             ELSE /\ Set(p, [r EXCEPT !.pc = "bridge:AddrAdd"])
                  /\ UNCHANGED hist
        /\ UNCHANGED <<links, veths, gw>>

\* ensureBridgeAddr adding its address next to the ones it found.
ensureBridgeAddr_Reconfigure(p) ==
    LET r == Issue(proc[p], "AddrList")
        addrs == links[r.br].addrs
        ipnStr == IPNetString(r.gwn)
    IN  /\ proc[p].pc = "bridge:ensureBridgeAddr"
        /\ \E fail \in BOOLEAN :
             IF fail
             THEN /\ Set(p, Exit(Fail(r, "AddrList"), "could not get list of IP addresses"))
                  /\ UNCHANGED hist
             ELSE IF addrs # {}
             THEN IF \E a \in addrs : IPNetString(a) = ipnStr
                  THEN /\ Set(p, [r EXCEPT !.pc = "bridge:setupVeth"])
                       /\ hist' = [hist EXCEPT !.ensured = @ \cup {Ensured(r)}]
                  ELSE /\ Set(p, [r EXCEPT !.pc = "bridge:AddrAdd"])
                       /\ UNCHANGED hist
             ELSE /\ Set(p, [r EXCEPT !.pc = "bridge:AddrAdd"])
                  /\ UNCHANGED hist
        /\ UNCHANGED <<links, veths, gw>>

\* ensureBridgeAddr, lines 49-64: list the addresses; one that matches is
\* fine, others only is a conflict, none means the address is to be added.
ensureBridgeAddr(p) ==
    LET r == Issue(proc[p], "AddrList")
        addrs == links[r.br].addrs
        ipnStr == IPNetString(r.gwn)
    IN  /\ proc[p].pc = "bridge:ensureBridgeAddr"
        /\ \E fail \in BOOLEAN :
             IF fail
             THEN /\ Set(p, Exit(Fail(r, "AddrList"), "could not get list of IP addresses"))
                  /\ UNCHANGED hist
             ELSE IF addrs # {}
             THEN IF \E a \in addrs : IPNetString(a) = ipnStr
                  THEN /\ Set(p, [r EXCEPT !.pc = "bridge:setupVeth"])
                       /\ hist' = [hist EXCEPT !.ensured = @ \cup {Ensured(r)}]
                  ELSE /\ Set(p, Exit(r, "already has an IP address different"))
                       /\ UNCHANGED hist
             ELSE /\ Set(p, [r EXCEPT !.pc = "bridge:AddrAdd"])
                  /\ UNCHANGED hist
        /\ UNCHANGED <<links, veths, gw>>

\* ensureBridgeAddr, lines 66-70: netlink.AddrAdd.
ensureBridgeAddr_AddrAdd(p) ==
    LET r == Issue(proc[p], "AddrAdd")
    IN  /\ proc[p].pc = "bridge:AddrAdd"
        /\ \E fail \in BOOLEAN :
             IF AddrAdd_EEXIST(r.br, r.gwn)
             THEN /\ Set(p, Exit(Err(r, "AddrAdd", "EEXIST"), "could not add IP address"))
                  /\ UNCHANGED <<links, hist>>
             ELSE IF fail
             THEN /\ Set(p, Exit(Fail(r, "AddrAdd"), "could not add IP address"))
                  /\ UNCHANGED <<links, hist>>
             ELSE /\ links' = [links EXCEPT ![r.br].addrs = @ \cup {r.gwn}]
                  /\ Set(p, [r EXCEPT !.pc = "bridge:setupVeth"])
                  /\ hist' = [hist EXCEPT !.ensured = @ \cup {Ensured(r)}]
        /\ UNCHANGED <<veths, gw>>

(***************************************************************************)
(* util.WithNetNSPath, util.SetupVeth, ipam.ApplyIPConfig and              *)
(* util.DelLinkByName as the plugins use them.  at is the caller's         *)
(* statement, next the one that follows.                                   *)
(***************************************************************************)
\* WithNetNSPath, entry: switch the thread into the container namespace.
WithNetNSPath_enter(p, at, next) ==
    LET r == Issue(proc[p], "setns")
    IN  /\ proc[p].pc = at
        /\ \E fail \in BOOLEAN :
             Set(p, IF fail THEN Exit(Fail(r, "setns"), "failed to enter namespace")
                    ELSE [r EXCEPT !.ns = r.env.NETNS, !.pc = next])
        /\ UNCHANGED <<links, veths, hist, gw>>

\* WithNetNSPath, exit: switch back, then hand the function's error to the
\* caller.  A failure to switch back is fatal: the process ends where it is.
WithNetNSPath_leave(r) ==
    [Issue(r, "setns") EXCEPT !.ns = "host", !.nsRet = r.fnErr]

\* The host-side name util.SetupVeth derives from its entropy argument.
hashVethName(entropy) == "veth" \o entropy

VethAt(netns, ifName) == {v \in veths : v.netns = netns /\ v.ifName = ifName}

HostVeth(name) == {v \in veths : v.host = name}

\* util.SetupVeth: create the pair in the current namespace and move the host
\* end out, or fail having created nothing.
SetupVeth(p, at, entropy, next, back) ==
    LET r == Issue(proc[p], "SetupVeth")
        ifName == r.env.IFNAME
        host == hashVethName(entropy)
    IN  /\ proc[p].pc = at
        /\ \E fail \in BOOLEAN :
             IF fail \/ VethAt(r.ns, ifName) # {} \/ HostVeth(host) # {}
             THEN /\ Set(p, [(IF fail THEN Fail(r, "SetupVeth") ELSE Err(r, "SetupVeth", "EEXIST")) EXCEPT
                                !.fnErr = "failed to make veth pair", !.pc = back])
                  /\ UNCHANGED veths
             ELSE /\ Set(p, [r EXCEPT !.made = TRUE, !.hostVeth = host, !.pc = next])
                  /\ veths' = veths \cup {Veth(r.ns, ifName, host)}
        /\ UNCHANGED <<links, hist, gw>>

\* ipam.ApplyIPConfig on the container end, then hostVethName is set and
\* the function returns nil.
ApplyIPConfig(p, at, back) ==
    LET r == Issue(proc[p], "ApplyIPConfig")
        ifName == r.env.IFNAME
        here == VethAt(r.ns, ifName)
    IN  /\ proc[p].pc = at
        /\ \E fail \in BOOLEAN :
             IF fail \/ here = {}
             THEN /\ Set(p, [(IF fail THEN Fail(r, "ApplyIPConfig") ELSE Err(r, "ApplyIPConfig", "ENODEV")) EXCEPT
                                !.fnErr = "failed to apply IP config", !.pc = back])
                  /\ UNCHANGED veths
             ELSE /\ Set(p, [r EXCEPT !.hostVethName = r.hostVeth, !.pc = back])
                  /\ veths' = (veths \ here) \cup {[v EXCEPT !.configured = TRUE] : v \in here}
        /\ UNCHANGED <<links, hist, gw>>

\* util.DelLinkByName: delete the interface if it is there; its peer goes
\* with it.  An interface that is not there is not an error.
DelLinkByName(p, at, back) ==
    LET r == Issue(proc[p], "DelLinkByName")
        here == VethAt(r.ns, r.env.IFNAME)
    IN  /\ proc[p].pc = at
        /\ \E fail \in BOOLEAN :
             IF here = {}
             THEN /\ Set(p, [Err(r, "DelLinkByName", "ENODEV") EXCEPT !.probe = "absent", !.pc = back])
                  /\ UNCHANGED veths
             ELSE IF fail
             THEN /\ Set(p, [Fail(r, "DelLinkByName") EXCEPT !.probe = "present",
                                !.fnErr = "failed to delete", !.pc = back])
                  /\ UNCHANGED veths
             ELSE /\ Set(p, [r EXCEPT !.probe = "present", !.pc = back])
                  /\ veths' = veths \ here
        /\ UNCHANGED <<links, hist, gw>>

\* netlink.LinkByName of a veth host end, from the namespace the thread is in.
LinkByName_found(r, name) == r.ns = "host" /\ HostVeth(name) # {}

(***************************************************************************)
(* bridge plugin: setupVeth and the rest of cmdAdd.                        *)
(***************************************************************************)
\* setupVeth, line 118: enter the container namespace.
setupVeth(p) == WithNetNSPath_enter(p, "bridge:setupVeth", "bridge:SetupVeth")

\* setupVeth, line 120: the entropy handed to util.SetupVeth is the
\* container ID.
bridge_entropy(env) == env.CONTID

\* setupVeth, lines 119-123: the pair.
setupVeth_SetupVeth(p) ==
    SetupVeth(p, "bridge:SetupVeth", bridge_entropy(proc[p].env),
              "bridge:ApplyIPConfig", "bridge:return")

\* setupVeth going on to the host end from inside the function.
setupVeth_ApplyIPConfig_Inside(p) ==
    ApplyIPConfig(p, "bridge:ApplyIPConfig", "bridge:LinkByName")

\* setupVeth, lines 125-130.
setupVeth_ApplyIPConfig(p) == ApplyIPConfig(p, "bridge:ApplyIPConfig", "bridge:return")

\* setupVeth using the link it got inside the namespace.
setupVeth_return_NoLookup(p) ==
    LET r == proc[p]
        back == WithNetNSPath_leave(r)
    IN  /\ r.pc = "bridge:return"
        /\ \E fail \in BOOLEAN :
             Set(p, IF fail THEN Exit(Fail(Issue(r, "setns"), "setns"), "failed to restore namespace")
                    ELSE IF back.nsRet # Nil THEN Exit(back, back.nsRet)
                    ELSE [back EXCEPT !.pc = "bridge:LinkSetMaster"])
        /\ UNCHANGED <<links, veths, hist, gw>>

\* setupVeth, lines 131-134: back from WithNetNSPath; its error is returned.
setupVeth_return(p) ==
    LET r == proc[p]
        back == WithNetNSPath_leave(r)
    IN  /\ r.pc = "bridge:return"
        /\ \E fail \in BOOLEAN :
             Set(p, IF fail THEN Exit(Fail(Issue(r, "setns"), "setns"), "failed to restore namespace")
                    ELSE IF back.nsRet # Nil THEN Exit(back, back.nsRet)
                    ELSE [back EXCEPT !.pc = "bridge:LinkByName"])
        /\ UNCHANGED <<links, veths, hist, gw>>

\* setupVeth, lines 136-140: look the host end up again.
setupVeth_LinkByName(p) ==
    LET r == Issue(proc[p], "LinkByName")
    IN  /\ proc[p].pc = "bridge:LinkByName"
        /\ \E fail \in BOOLEAN :
             Set(p, IF fail \/ ~LinkByName_found(r, r.hostVethName)
                    THEN Exit(IF fail THEN Fail(r, "LinkByName") ELSE Err(r, "LinkByName", "ENODEV"), "failed to lookup")
                    ELSE [r EXCEPT !.pc = "bridge:LinkSetMaster"])
        /\ UNCHANGED <<links, veths, hist, gw>>

\* setupVeth going on although the host end could not be connected.
setupVeth_LinkSetMaster_Swallow(p) ==
    LET r == Issue(proc[p], "LinkSetMaster")
        mine == HostVeth(r.hostVethName)
    IN  /\ proc[p].pc = "bridge:LinkSetMaster"
        /\ \E fail \in BOOLEAN :
             IF fail \/ ~LinkByName_found(r, r.hostVethName)
             THEN /\ Set(p, [(IF fail THEN Fail(r, "LinkSetMaster")
                                      ELSE Err(r, "LinkSetMaster", "ENODEV")) EXCEPT
                                !.pc = "bridge:PrintIfConfig"])
                  /\ UNCHANGED veths
             ELSE /\ Set(p, [r EXCEPT !.pc = "bridge:PrintIfConfig"])
                  /\ veths' = (veths \ mine) \cup {[v EXCEPT !.master = r.br] : v \in mine}
        /\ UNCHANGED <<links, hist, gw>>

\* setupVeth, lines 142-147: connect the host end to the bridge.
setupVeth_LinkSetMaster(p) ==
    LET r == Issue(proc[p], "LinkSetMaster")
        mine == HostVeth(r.hostVethName)
    IN  /\ proc[p].pc = "bridge:LinkSetMaster"
        /\ \E fail \in BOOLEAN :
             IF fail \/ ~LinkByName_found(r, r.hostVethName)
             THEN /\ Set(p, Exit(IF fail THEN Fail(r, "LinkSetMaster") ELSE Err(r, "LinkSetMaster", "ENODEV"), "failed to connect to bridge"))
                  /\ UNCHANGED veths
             ELSE /\ Set(p, [r EXCEPT !.pc = "bridge:PrintIfConfig"])
                  /\ veths' = (veths \ mine) \cup {[v EXCEPT !.master = r.br] : v \in mine}
        /\ UNCHANGED <<links, hist, gw>>

\* cmdAdd, lines 208-210: report the assigned address.
bridge_PrintIfConfig(p) ==
    LET r == proc[p]
    IN  /\ r.pc = "bridge:PrintIfConfig"
        /\ \E fail \in BOOLEAN :
             Set(p, IF fail THEN Exit(Fail(r, "PrintIfConfig"), "failed to print the interface config")
                    ELSE Exit([r EXCEPT !.out = r.ipConf.IP.IP], Nil))
        /\ UNCHANGED <<links, veths, hist, gw>>

(***************************************************************************)
(* bridge plugin: cmdDel.                                                  *)
(***************************************************************************)
\* cmdDel, line 214: enter the container namespace.
bridge_cmdDel(p) == WithNetNSPath_enter(p, "bridge:cmdDel", "bridge:DelLinkByName")

\* cmdDel, line 215.
bridge_cmdDel_DelLinkByName(p) == DelLinkByName(p, "bridge:DelLinkByName", "bridge:delReturn")

\* A cmdDel that insists on having found the interface.
cmdDel_return_Strict(p, at) ==
    LET r == proc[p]
        back == WithNetNSPath_leave(r)
    IN  /\ r.pc = at
        /\ \E fail \in BOOLEAN :
             Set(p, IF fail THEN Exit(Fail(Issue(r, "setns"), "setns"), "failed to restore namespace")
                    ELSE IF r.probe = "absent" THEN Exit(back, "failed to lookup")
                    ELSE Exit(back, back.nsRet))
        /\ UNCHANGED <<links, veths, hist, gw>>

\* cmdDel, lines 214-216 (98-101 in veth.go): what WithNetNSPath returns is
\* what cmdDel returns.
cmdDel_return(p, at) ==
    LET r == proc[p]
        back == WithNetNSPath_leave(r)
    IN  /\ r.pc = at
        /\ \E fail \in BOOLEAN :
             Set(p, IF fail THEN Exit(Fail(Issue(r, "setns"), "setns"), "failed to restore namespace")
                    ELSE Exit(back, back.nsRet))
        /\ UNCHANGED <<links, veths, hist, gw>>

bridge_cmdDel_return(p) == cmdDel_return(p, "bridge:delReturn")

(***************************************************************************)
(* veth plugin.                                                            *)
(***************************************************************************)
\* cmdAdd, lines 41-44: load the descriptor.
veth_cmdAdd(p) ==
    LET r == proc[p]
        l == LoadNet(r.env.NETCONF, NoNet)
    IN  /\ r.pc = "veth:cmdAdd"
        /\ Set(p, IF ~l.ok THEN Exit(Err(r, "LoadNet", "EINVAL"), "failed to load")
                  ELSE [r EXCEPT !.n = l.n, !.pc = "veth:ExecPlugin"])
        /\ UNCHANGED <<links, veths, hist, gw>>

\* cmdAdd, lines 46-50: run the address-management plugin.
veth_ExecPlugin(p) ==
    LET r == proc[p]
    IN  /\ r.pc = "veth:ExecPlugin"
        /\ \E ok \in BOOLEAN, res \in IpamResults :
             Set(p, IF ~ok THEN Exit(Err(r, "ExecPlugin", "EIO"), "ipam plugin failed")
                    ELSE [r EXCEPT !.ipConf = res, !.pc = "veth:WithNetNSPath"])
        /\ UNCHANGED <<links, veths, hist, gw>>

\* cmdAdd, line 52: enter the container namespace.
veth_WithNetNSPath(p) == WithNetNSPath_enter(p, "veth:WithNetNSPath", "veth:SetupVeth")

\* cmdAdd, line 53: the entropy is container ID and interface name,
\* concatenated.
veth_entropy(env) == env.CONTID \o env.IFNAME

\* cmdAdd, lines 53-58: the pair.
veth_SetupVeth(p) ==
    SetupVeth(p, "veth:SetupVeth", veth_entropy(proc[p].env),
              "veth:ApplyIPConfig", "veth:return")

\* cmdAdd, lines 60-67.
veth_ApplyIPConfig(p) == ApplyIPConfig(p, "veth:ApplyIPConfig", "veth:return")

\* cmdAdd, lines 68-71: back from WithNetNSPath; its error is returned.
veth_return(p) ==
    LET r == proc[p]
        back == WithNetNSPath_leave(r)
    IN  /\ r.pc = "veth:return"
        /\ \E fail \in BOOLEAN :
             Set(p, IF fail THEN Exit(Fail(Issue(r, "setns"), "setns"), "failed to restore namespace")
                    ELSE IF back.nsRet # Nil THEN Exit(back, back.nsRet)
                    ELSE [back EXCEPT !.pc = "veth:LinkByName"])
        /\ UNCHANGED <<links, veths, hist, gw>>

\* cmdAdd, lines 73-77: look the host end up again.
veth_LinkByName(p) ==
    LET r == Issue(proc[p], "LinkByName")
    IN  /\ proc[p].pc = "veth:LinkByName"
        /\ \E fail \in BOOLEAN :
             Set(p, IF fail \/ ~LinkByName_found(r, r.hostVethName)
                    THEN Exit(IF fail THEN Fail(r, "LinkByName") ELSE Err(r, "LinkByName", "ENODEV"), "failed to lookup")
                    ELSE [r EXCEPT !.pc = "veth:AddrAdd"])
        /\ UNCHANGED <<links, veths, hist, gw>>

\* cmdAdd, lines 79-82: the host end's address, the gateway as a /31.
veth_ipn(ipConf) == [IP |-> ipConf.Gateway, Mask |-> 31]

\* cmdAdd, lines 83-86: netlink.AddrAdd on the host end.  The kernel may
\* install the route to the address's network along with the address.
veth_AddrAdd(p) ==
    LET r == Issue(proc[p], "AddrAdd")
        mine == HostVeth(r.hostVethName)
        ipn == veth_ipn(r.ipConf)
    IN  /\ proc[p].pc = "veth:AddrAdd"
        /\ \E fail \in BOOLEAN, connected \in BOOLEAN :
             IF fail \/ ~LinkByName_found(r, r.hostVethName)
             THEN /\ Set(p, Exit(IF fail THEN Fail(r, "AddrAdd") ELSE Err(r, "AddrAdd", "ENODEV"), "failed to add IP addr to veth"))
                  /\ UNCHANGED veths
             ELSE /\ Set(p, [r EXCEPT !.pc = "veth:AddHostRoute"])
                  /\ veths' = (veths \ mine) \cup
                        {[v EXCEPT !.addrs = @ \cup {ipn},
                                   !.routes = IF connected THEN @ \cup {ipn} ELSE @] : v \in mine}
        /\ UNCHANGED <<links, hist, gw>>

\* cmdAdd, lines 88-91: the host route, with the address of the host end as
\* its destination; a route that exists already is fine.
veth_AddHostRoute(p) ==
    LET r == Issue(proc[p], "RouteAdd")
        mine == HostVeth(r.hostVethName)
        dst == veth_ipn(r.ipConf)
    IN  /\ proc[p].pc = "veth:AddHostRoute"
        /\ \E fail \in BOOLEAN :
             IF fail \/ ~LinkByName_found(r, r.hostVethName)
             THEN /\ Set(p, Exit(IF fail THEN Fail(r, "RouteAdd") ELSE Err(r, "RouteAdd", "ENODEV"), "failed to add route on host"))
                  /\ UNCHANGED veths
             ELSE IF \E v \in mine : dst \in v.routes
             THEN /\ Set(p, [Err(r, "RouteAdd", "EEXIST") EXCEPT !.pc = "veth:PrintIfConfig"])
                  /\ UNCHANGED veths
             ELSE /\ Set(p, [r EXCEPT !.pc = "veth:PrintIfConfig"])
                  /\ veths' = (veths \ mine) \cup {[v EXCEPT !.routes = @ \cup {dst}] : v \in mine}
        /\ UNCHANGED <<links, hist, gw>>

\* cmdAdd, lines 93-95: report the assigned address.
veth_PrintIfConfig(p) ==
    LET r == proc[p]
    IN  /\ r.pc = "veth:PrintIfConfig"
        /\ \E fail \in BOOLEAN :
             Set(p, IF fail THEN Exit(Fail(r, "PrintIfConfig"), "failed to print the interface config")
                    ELSE Exit([r EXCEPT !.out = r.ipConf.IP.IP], Nil))
        /\ UNCHANGED <<links, veths, hist, gw>>

\* cmdDel, line 99: enter the container namespace.
veth_cmdDel(p) == WithNetNSPath_enter(p, "veth:cmdDel", "veth:DelLinkByName")

\* cmdDel, line 100.
veth_cmdDel_DelLinkByName(p) == DelLinkByName(p, "veth:DelLinkByName", "veth:delReturn")

veth_cmdDel_return(p) == cmdDel_return(p, "veth:delReturn")

(***************************************************************************)
(* The system: plugin processes started by the runtime, interleaved.       *)
(***************************************************************************)
Step(p) ==
    \/ main(p)
    \/ main_exit(p)
    \/ bridge_cmdAdd(p)
    \/ bridge_ExecPlugin(p)
    \/ ensureBridge(p)
    \/ bridgeByName(p)
    \/ ensureBridge_LinkSetUp(p)
    \/ ensureBridgeAddr(p)
    \/ ensureBridgeAddr_AddrAdd(p)
    \/ setupVeth(p)
    \/ setupVeth_SetupVeth(p)
    \/ setupVeth_ApplyIPConfig(p)
    \/ setupVeth_return(p)
    \/ setupVeth_LinkByName(p)
    \/ setupVeth_LinkSetMaster(p)
    \/ bridge_PrintIfConfig(p)
    \/ bridge_cmdDel(p)
    \/ bridge_cmdDel_DelLinkByName(p)
    \/ bridge_cmdDel_return(p)
    \/ veth_cmdAdd(p)
    \/ veth_ExecPlugin(p)
    \/ veth_WithNetNSPath(p)
    \/ veth_SetupVeth(p)
    \/ veth_ApplyIPConfig(p)
    \/ veth_return(p)
    \/ veth_LinkByName(p)
    \/ veth_AddrAdd(p)
    \/ veth_AddHostRoute(p)
    \/ veth_PrintIfConfig(p)
    \/ veth_cmdDel(p)
    \/ veth_cmdDel_DelLinkByName(p)
    \/ veth_cmdDel_return(p)

Next == \E p \in Procs : Step(p)

Spec == Init /\ [][Next]_vars

(***************************************************************************)
(* The gateway computation on its own: two addresses a and b and a prefix  *)
(* length go in, calcGatewayIP is applied to a/plen and to b/plen.         *)
(***************************************************************************)
GwLastOctets == {0, 1, 5, 77, 127, 128, 130, 190, 254, 255}

GwAddrsA ==
    { <<a1, a2, a3, a4>> : a1 \in {10, 192}, a2 \in {1, 168, 255}, a3 \in {2, 5, 255},
                           a4 \in GwLastOctets }

GwAddrsB ==
    { <<10, 1, 2, x>> : x \in GwLastOctets } \cup { <<192, 168, 5, x>> : x \in GwLastOctets }
    \cup { <<10, 1, 255, 255>>, <<192, 255, 255, 255>>, <<10, 168, 2, 0>> }

InitGw ==
    /\ hist = [mode |-> "serial", left |-> 0, ensured |-> {}, created |-> {}]
    /\ links = [name \in BrNames |-> NoDevice]
    /\ veths = {}
    /\ proc = [p \in Procs |-> IdleProc]
    /\ \E a \in GwAddrsA, b \in GwAddrsB, plen \in 0..32 :
         gw = [NoGw EXCEPT !.phase = "in", !.a = a, !.b = b, !.plen = plen]

GwCompute ==
    /\ gw.phase = "in"
    /\ gw' = [gw EXCEPT !.phase = "out",
                        !.outA = calcGatewayIP(IPNet(gw.a, gw.plen)),
                        !.outB = calcGatewayIP(IPNet(gw.b, gw.plen))]
    /\ UNCHANGED <<links, veths, proc, hist>>

SpecGw == InitGw /\ [][GwCompute]_vars

(***************************************************************************)
(* Vocabulary of the properties.                                           *)
(***************************************************************************)
\* Bit i (1 = most significant, 32 = least) of an address.
Bit(ip, i) == (ip[((i - 1) \div 8) + 1] \div Pow2(7 - ((i - 1) % 8))) % 2

\* Two addresses lie in the same network of prefix length plen.
SameNetwork(a, b, plen) == \A i \in 1..plen : Bit(a, i) = Bit(b, i)

\* Network base plus one, computed on the address as two 16-bit halves.
RefGateway(ip, plen) ==
    LET hi == ip[1] * 256 + ip[2]
        lo == ip[3] * 256 + ip[4]
        baseHi == IF plen >= 16 THEN hi ELSE hi - (hi % Pow2(16 - plen))
        baseLo == IF plen <= 16 THEN 0 ELSE lo - (lo % Pow2(32 - plen))
        lo1 == (baseLo + 1) % 65536
        hi1 == IF baseLo + 1 = 65536 THEN baseHi + 1 ELSE baseHi
    IN  <<hi1 \div 256, hi1 % 256, lo1 \div 256, lo1 % 256>>

\* The errors ensureBridge can return.
EnsureErrs ==
    {"could not add bridge", "could not lookup", "already exists but is not a bridge",
     "could not set bridge up", "could not get list of IP addresses",
     "already has an IP address different", "could not add IP address"}

\* The statements inside ensureBridge, after its first kernel call.
InEnsure == {"bridge:bridgeByName", "bridge:LinkSetUp", "bridge:ensureBridgeAddr", "bridge:AddrAdd"}

\* ensureBridge of r has been entered / has returned nil just now / has
\* returned an error.
EnsureCalled(r) == r.plugin = "bridge" /\ r.brBefore # NotSeen

EnsureReturnedNil(r) == EnsureCalled(r) /\ r.pc = "bridge:setupVeth"

EnsureFailed(r) == EnsureCalled(r) /\ r.pc = "main:exit" /\ r.err \in EnsureErrs

Serial == hist.mode = "serial"

Bridge(r) == links[r.n.BrName]

(***************************************************************************)
(* C1.  Calling ensureBridge a second time with the name and address of an *)
(* earlier successful call succeeds again (unless the kernel fails a call  *)
(* for a reason of its own); afterwards the name denotes one device, a     *)
(* bridge, which carries the requested address, and the second call has    *)
(* added no address.                                                       *)
(***************************************************************************)
C1_Case(r) == Serial /\ EnsureCalled(r) /\ r.prior /\ r.gwn # NilIPNet /\ ~r.fault

C1_EnsureBridgeIdempotent ==
    \A p \in Procs :
        LET r == proc[p]
        IN  C1_Case(r) =>
              /\ ~EnsureFailed(r)
              /\ EnsureReturnedNil(r) =>
                   /\ Bridge(r).kind = "bridge"
                   /\ r.gwn \in Bridge(r).addrs
                   /\ Bridge(r).addrs = r.brBefore.addrs

C1_Witness ==
    \E p \in Procs : C1_Case(proc[p]) /\ EnsureReturnedNil(proc[p])

\* C1 as stated: after the second call the bridge carries exactly the one
\* requested address.
C1_ExactlyThatOneAddress ==
    \A p \in Procs :
        LET r == proc[p]
        IN  C1_Case(r) /\ EnsureReturnedNil(r) => Bridge(r).addrs = {r.gwn}

(***************************************************************************)
(* C2.  ensureBridge on a bridge that carries addresses, none of them the  *)
(* requested one, fails with the conflict error and leaves the bridge's    *)
(* addresses as they were.                                                 *)
(***************************************************************************)
C2_Case(r) ==
    /\ Serial /\ EnsureCalled(r) /\ r.gwn # NilIPNet
    /\ r.brBefore.kind = "bridge" /\ r.brBefore.addrs # {}
    /\ r.gwn \notin r.brBefore.addrs

C2_BridgeConflictDetected ==
    \A p \in Procs :
        LET r == proc[p]
        IN  C2_Case(r) =>
              /\ Bridge(r).addrs = r.brBefore.addrs
              /\ r.pc # "bridge:setupVeth"
              /\ (~r.fault /\ r.pc \notin InEnsure) =>
                    r.pc = "main:exit" /\ r.err = "already has an IP address different"

C2_Witness ==
    \E p \in Procs :
        /\ C2_Case(proc[p]) /\ proc[p].pc = "main:exit"
        /\ proc[p].err = "already has an IP address different"

(***************************************************************************)
(* C3.  Two attaches that ensure the same bridge with the same address at  *)
(* the same time, on a host without the bridge: neither ensureBridge       *)
(* fails.  An ensureBridge fails here only if the kernel fails a call for  *)
(* a reason of its own or the bridge carries some other address.           *)
(***************************************************************************)
C3_RaceIsBenign ==
    hist.mode = "parallel" =>
        \A p \in Procs :
            LET r == proc[p]
            IN  (EnsureFailed(r) /\ ~r.fault) => ~(Bridge(r).addrs \subseteq {r.gwn})

(***************************************************************************)
(* C4.  An Attach that fails in a step after it created the veth pair      *)
(* leaves no pair behind.                                                  *)
(***************************************************************************)
PostCreationErrs ==
    {"failed to apply IP config", "failed to lookup", "failed to connect to bridge",
     "failed to add IP addr to veth", "failed to add route on host"}

C4_NoPairLeftBehind ==
    \A p \in Procs :
        LET r == proc[p]
        IN  (Serial /\ r.pc = "main:exit" /\ r.made /\ r.err \in PostCreationErrs)
                => VethAt(r.env.NETNS, r.env.IFNAME) = {}

(***************************************************************************)
(* C5.  cmdDel for an interface that is not in the namespace returns nil   *)
(* (so the process exits with status 0), in both plugins.                  *)
(***************************************************************************)
C5_Case(r) == r.env.COMMAND = "DEL" /\ r.probe = "absent" /\ r.pc = "main:exit" /\ ~r.fault

C5_DetachIdempotent ==
    \A p \in Procs : C5_Case(proc[p]) => proc[p].err = Nil /\ proc[p].ns = "host"

C5_Witness ==
    \E p \in Procs :
        /\ C5_Case(proc[p]) /\ proc[p].err = Nil
        /\ \E i \in DOMAIN proc[p].ops : proc[p].ops[i] = <<"DelLinkByName", proc[p].env.NETNS>>

(***************************************************************************)
(* C6.  When the function run inside the container namespace fails, the    *)
(* caller gets that very error, with the thread back in the host           *)
(* namespace (a failure to switch back is fatal: the call does not         *)
(* return); and every host-side kernel call is issued from the host        *)
(* namespace.                                                              *)
(***************************************************************************)
HostSideOps ==
    {"LinkAdd", "LinkByName", "LinkSetUp", "AddrList", "AddrAdd", "LinkSetMaster", "RouteAdd"}

HostSidePcs ==
    {"bridge:LinkByName", "bridge:LinkSetMaster", "bridge:PrintIfConfig",
     "veth:LinkByName", "veth:AddrAdd", "veth:AddHostRoute", "veth:PrintIfConfig"}

C6_NamespaceRestored ==
    \A p \in Procs :
        LET r == proc[p]
        IN  /\ \A i \in DOMAIN r.ops : r.ops[i][1] \in HostSideOps => r.ops[i][2] = "host"
            /\ r.pc \in HostSidePcs => r.ns = "host"
            /\ (r.fnErr # Nil /\ r.pc = "main:exit" /\ r.err # "failed to restore namespace")
                    => r.ns = "host" /\ r.err = r.fnErr

C6_Witness ==
    \E p \in Procs :
        /\ proc[p].fnErr = "failed to apply IP config" /\ proc[p].pc = "main:exit"
        /\ proc[p].err = proc[p].fnErr /\ proc[p].ns = "host"

(***************************************************************************)
(* C7.  An Attach that fails to load the descriptor or to get an address   *)
(* has issued no kernel call and entered no namespace; and an Attach that  *)
(* has issued a kernel call has its address assignment.                    *)
(***************************************************************************)
EarlyErrs == {"failed to load", "ipam plugin failed"}

C7_EarlyFailureCreatesNothing ==
    \A p \in Procs :
        LET r == proc[p]
        IN  /\ r.err \in EarlyErrs =>
                 r.pc = "main:exit" /\ r.ops = <<>> /\ r.ns = "host" /\ ~r.made
            /\ (r.env.COMMAND = "ADD" /\ r.ops # <<>>) => r.ipConf \in IpamResults

C7_Witness ==
    \E p \in Procs :
        /\ proc[p].plugin = "bridge" /\ proc[p].err = "ipam plugin failed"
        /\ proc[p].pc = "main:exit" /\ proc[p].ops = <<>>

(***************************************************************************)
(* C8.  A process whose environment lacks one of the five variables, or    *)
(* names a verb other than ADD and DEL, ends with status 1 without having  *)
(* started cmdAdd or cmdDel.                                               *)
(***************************************************************************)
C8_Case(r) ==
    /\ r.plugin # Nil
    /\ (\E v \in EnvNames : r.env[v] = "") \/ r.env.COMMAND \notin {"ADD", "DEL"}

C8_DispatcherFailsClosed ==
    \A p \in Procs :
        LET r == proc[p]
        IN  C8_Case(r) =>
              r.pc = "exited" /\ r.status = 1 /\ r.ops = <<>> /\ r.ns = "host"

C8_Witness ==
    \E p \in Procs :
        /\ C8_Case(proc[p]) /\ proc[p].env.NETNS = "" /\ proc[p].env.COMMAND = "ADD"
        /\ proc[p].pc = "exited" /\ proc[p].status = 1

(***************************************************************************)
(* C9.  calcGatewayIP returns the network base plus one: the result is the *)
(* same for any two addresses of one network, e.g. 10.1.2.1 in             *)
(* 10.1.2.0/24 and 192.168.5.129 in 192.168.5.128/26.                      *)
(***************************************************************************)
C9_DeterministicGateway ==
    gw.phase = "out" =>
        /\ gw.outA = RefGateway(gw.a, gw.plen)
        /\ gw.outB = RefGateway(gw.b, gw.plen)
        /\ SameNetwork(gw.a, gw.b, gw.plen) => gw.outA = gw.outB
        /\ (gw.plen = 24 /\ SameNetwork(gw.b, <<10, 1, 2, 0>>, 24)) => gw.outB = <<10, 1, 2, 1>>
        /\ (gw.plen = 26 /\ SameNetwork(gw.b, <<192, 168, 5, 128>>, 26))
                => gw.outB = <<192, 168, 5, 129>>

C9_Witness ==
    /\ gw.phase = "out" /\ gw.plen = 26
    /\ gw.a = <<192, 168, 5, 130>> /\ gw.b = <<192, 168, 5, 190>>
    /\ gw.outA = <<192, 168, 5, 129>> /\ gw.outB = gw.outA

(***************************************************************************)
(* C10.  A bridge Attach in gateway mode for which the plugin returned     *)
(* A/p without a gateway and in which no step failed: the bridge exists,   *)
(* is up and carries (network base of A)+1 with prefix p (and nothing else *)
(* if it carried no address before); the veth pair exists with the         *)
(* container end under the given name in the container namespace and the   *)
(* host end, without address, enslaved to the bridge; A is reported.       *)
(***************************************************************************)
C10_Case(r) ==
    /\ Serial /\ r.plugin = "bridge" /\ r.env.COMMAND = "ADD"
    /\ r.pc = "main:exit" /\ r.err = Nil
    /\ r.n.IsGW /\ r.ipConf.Gateway = NilIP

C10_Expected(r) == IPNet(RefGateway(r.ipConf.IP.IP, r.ipConf.IP.Mask), r.ipConf.IP.Mask)

C10_Rest(r) ==
    /\ Bridge(r).kind = "bridge" /\ Bridge(r).up
    /\ \E v \in veths :
         /\ v.netns = r.env.NETNS /\ v.ifName = r.env.IFNAME
         /\ v.host = r.hostVethName /\ v.master = r.n.BrName /\ v.addrs = {}
    /\ r.ns = "host"
    /\ r.out = r.ipConf.IP.IP

C10_EndToEndBridgeAttach ==
    \A p \in Procs :
        LET r == proc[p]
        IN  C10_Case(r) =>
              /\ C10_Rest(r)
              /\ C10_Expected(r) \in Bridge(r).addrs
              /\ r.brBefore.addrs = {} => Bridge(r).addrs = {C10_Expected(r)}

C10_Witness ==
    \E p \in Procs :
        /\ C10_Case(proc[p]) /\ proc[p].brBefore.kind = "absent"
        /\ Bridge(proc[p]).addrs = {GwA} /\ proc[p].out = <<10, 2, 0, 5>>

\* C10 as stated: the bridge carries exactly that address.
C10_ExactlyTheGateway ==
    \A p \in Procs :
        LET r == proc[p]
        IN  C10_Case(r) => C10_Rest(r) /\ Bridge(r).addrs = {C10_Expected(r)}

(***************************************************************************)
(* C11.  A successful Attach of the veth plugin leaves the host end with   *)
(* exactly one address, the gateway with a /31 prefix, the gateway being   *)
(* the one the address-management plugin returned or else the network base *)
(* of the assigned address plus one.                                       *)
(***************************************************************************)
VethAttached(r) ==
    r.plugin = "veth" /\ r.env.COMMAND = "ADD" /\ r.pc = "main:exit" /\ r.err = Nil

GatewayOf(ipConf) ==
    IF ipConf.Gateway # NilIP THEN ipConf.Gateway
    ELSE RefGateway(ipConf.IP.IP, ipConf.IP.Mask)

C11_HostEndCarriesGateway ==
    \A p \in Procs :
        LET r == proc[p]
        IN  VethAttached(r) =>
              \E v \in HostVeth(r.hostVethName) :
                  v.addrs = {IPNet(GatewayOf(r.ipConf), 31)}

(***************************************************************************)
(* C12.  A successful Attach of the veth plugin leaves on the host a route *)
(* through the host end to the assigned address as a single host (/32).    *)
(***************************************************************************)
C12_HostRouteToContainer ==
    \A p \in Procs :
        LET r == proc[p]
        IN  VethAttached(r) =>
              \E v \in HostVeth(r.hostVethName) :
                  IPNet(r.ipConf.IP.IP, 32) \in v.routes

(***************************************************************************)
(* C13.  The interface configuration is reported only by an Attach all of  *)
(* whose steps succeeded, host-side attachment included; an Attach that    *)
(* returns an error and a Detach report nothing; and the process exits     *)
(* with status 0 exactly when cmdAdd or cmdDel returned nil.               *)
(***************************************************************************)
\* The errors the plugins let pass.
Tolerated ==
    {<<"LinkAdd", "EEXIST">>, <<"RouteAdd", "EEXIST">>, <<"DelLinkByName", "ENODEV">>}

OpsOf(r) == {r.ops[i][1] : i \in DOMAIN r.ops}

Reported(r) == r.out # NilIP

C13_Report ==
    \A p \in Procs :
        LET r == proc[p]
        IN  /\ Reported(r) =>
                /\ r.pc = "main:exit" /\ r.err = Nil /\ r.env.COMMAND = "ADD"
                /\ r.kerr \subseteq Tolerated
                /\ r.out = r.ipConf.IP.IP
                /\ r.plugin = "bridge" => {"LinkAdd", "LinkSetUp", "SetupVeth", "LinkSetMaster"} \subseteq OpsOf(r)
                /\ r.plugin = "veth" => {"SetupVeth", "AddrAdd", "RouteAdd"} \subseteq OpsOf(r)
            /\ (r.pc = "main:exit" /\ r.err # Nil) => ~Reported(r)
            /\ r.env.COMMAND = "DEL" => ~Reported(r)

C13_ExitStatus ==
    \A p \in Procs :
        proc[p].pc = "main:exit" /\ proc'[p] # proc[p] =>
            /\ proc'[p].pc = "exited"
            /\ proc'[p].status = 0 <=> proc[p].err = Nil

C13_ReportOnlyOnSuccess == []C13_Report /\ [][C13_ExitStatus]_vars

C13_Witness ==
    \E p \in Procs :
        /\ Reported(proc[p]) /\ proc[p].plugin = "bridge" /\ proc[p].err = Nil
        /\ proc[p].pc = "main:exit"

(***************************************************************************)
(* C14.  ensureBridge on a name that belongs to a device that is not a     *)
(* bridge fails with the not-a-bridge error; the device is as it was (not  *)
(* brought up, no address added) and the Attach creates no veth pair.      *)
(***************************************************************************)
C14_Case(r) == EnsureCalled(r) /\ r.brBefore.kind \notin {"absent", "bridge"}

C14_NonBridgeCollision ==
    \A p \in Procs :
        LET r == proc[p]
        IN  C14_Case(r) =>
              /\ Bridge(r) = r.brBefore
              /\ OpsOf(r) \subseteq {"LinkAdd", "LinkByName"}
              /\ ~r.made
              /\ r.pc \in {"bridge:bridgeByName", "main:exit"}
              /\ r.pc = "main:exit" => r.err \in EnsureErrs
              /\ (r.pc = "main:exit" /\ ~r.fault) => r.err = "already exists but is not a bridge"

C14_Witness ==
    \E p \in Procs :
        /\ C14_Case(proc[p]) /\ proc[p].pc = "main:exit"
        /\ proc[p].err = "already exists but is not a bridge"
        /\ ~Bridge(proc[p]).up

(***************************************************************************)
(* C15.  ensureBridge on a bridge that already carries the requested       *)
(* address succeeds and leaves the bridge as it found it: the same         *)
(* addresses, the same administrative state.                               *)
(***************************************************************************)
C15_Case(r) ==
    /\ Serial /\ EnsureCalled(r) /\ ~r.fault
    /\ r.brBefore.kind = "bridge" /\ r.gwn # NilIPNet /\ r.gwn \in r.brBefore.addrs

C15_SatisfiedBridgeUntouched ==
    \A p \in Procs :
        LET r == proc[p]
        IN  C15_Case(r) => ~EnsureFailed(r) /\ Bridge(r) = r.brBefore

(***************************************************************************)
(* C16.  While two attaches ensure the same bridge at the same time, on a  *)
(* host that had no such bridge, the bridge never carries more than one    *)
(* address; and two ensureBridge calls that asked for different addresses  *)
(* have not both returned nil.                                             *)
(***************************************************************************)
EnsureSucceeded(r) == EnsureCalled(r) /\ Ensured(r) \in hist.ensured /\ r.err \notin EnsureErrs

C16_NoSilentReconfiguration ==
    hist.mode = "parallel" =>
        /\ \A b \in BrNames : Cardinality(links[b].addrs) <= 1
        /\ \A p, q \in Procs :
             (EnsureSucceeded(proc[p]) /\ EnsureSucceeded(proc[q])
                 /\ proc[p].n.BrName = proc[q].n.BrName)
                    => proc[p].gwn = proc[q].gwn

(***************************************************************************)
(* C17.  In both plugins every call on the host end of the pair (set       *)
(* master; add address, add route) comes after the namespace-scoped block  *)
(* has returned nil and after a lookup of the host end by name, made from  *)
(* the host namespace as the first call after the block; an Attach whose   *)
(* lookup fails, or whose block fails, issues no call on the host end, and *)
(* one whose block fails does not look the host end up.                    *)
(***************************************************************************)
HostEndOps(r) == IF r.plugin = "bridge" THEN {"LinkSetMaster"} ELSE {"AddrAdd", "RouteAdd"}

\* Where in ops the thread switched back to the host namespace (0: not yet).
RestoredAt(r) ==
    LET I == {i \in DOMAIN r.ops : r.ops[i][1] = "setns" /\ r.ops[i][2] # "host"}
    IN  IF I = {} THEN 0 ELSE CHOOSE i \in I : TRUE

AfterBlock(r) == SubSeq(r.ops, RestoredAt(r) + 1, Len(r.ops))

C17_Case(r) == r.plugin \in Plugins /\ r.env.COMMAND = "ADD" /\ r.pc # "exited"

C17_ReResolveBeforeUse ==
    \A p \in Procs :
        LET r == proc[p]
        IN  C17_Case(r) =>
              /\ \A j \in DOMAIN r.ops :
                    r.ops[j][1] \in HostEndOps(r) =>
                        /\ RestoredAt(r) > 0 /\ j > RestoredAt(r) + 1
                        /\ r.ops[RestoredAt(r) + 1] = <<"LinkByName", "host">>
                        /\ r.fnErr = Nil /\ r.nsRet = Nil
                        /\ <<"LinkByName", "EIO">> \notin r.kerr
                        /\ <<"LinkByName", "ENODEV">> \notin r.kerr
              /\ r.err = "failed to lookup" => OpsOf(r) \cap HostEndOps(r) = {}
              /\ (r.fnErr # Nil /\ RestoredAt(r) > 0) => AfterBlock(r) = <<>>
              /\ r.pc \in {"bridge:LinkSetMaster", "veth:AddrAdd"} =>
                    /\ RestoredAt(r) > 0
                    /\ AfterBlock(r) = << <<"LinkByName", "host">> >>

C17_Witness ==
    \E p \in Procs :
        /\ C17_Case(proc[p]) /\ proc[p].plugin = "veth"
        /\ "RouteAdd" \in OpsOf(proc[p])

(***************************************************************************)
(* C18.  Two attachments that differ in the container or in the interface  *)
(* name never hand the same entropy to util.SetupVeth: when a process is   *)
(* about to create its pair, no pair of another attachment has the host    *)
(* name derived from this process's entropy.                               *)
(***************************************************************************)
Entropy(r) == IF r.plugin = "bridge" THEN bridge_entropy(r.env) ELSE veth_entropy(r.env)

C18_DistinctSeeds ==
    \A p \in Procs :
        LET r == proc[p]
        IN  r.pc \in {"bridge:SetupVeth", "veth:SetupVeth"} =>
              \A v \in veths :
                  (v.netns # r.env.NETNS \/ v.ifName # r.env.IFNAME)
                      => v.host # hashVethName(Entropy(r))

(***************************************************************************)
(* C19.  In a bridge Attach with the gateway flag off, ensureBridge is     *)
(* called without an address and neither lists nor adds addresses on the   *)
(* bridge; with the flag on, the address it is called with is the gateway  *)
(* the address-management plugin returned, or else the network base of the *)
(* assigned address plus one, with the prefix length of the assigned       *)
(* address.                                                                *)
(***************************************************************************)
C19_AddressByGatewayMode ==
    \A p \in Procs :
        LET r == proc[p]
        IN  EnsureCalled(r) =>
              /\ ~r.n.IsGW =>
                    /\ r.gwn = NilIPNet
                    /\ OpsOf(r) \cap {"AddrList", "AddrAdd"} = {}
                    /\ Serial => Bridge(r).addrs = r.brBefore.addrs
              /\ r.n.IsGW =>
                    /\ r.gwn = IPNet(GatewayOf(r.ipConf), r.ipConf.IP.Mask)
                    /\ (Serial /\ EnsureReturnedNil(r)) =>
                          r.gwn \in Bridge(r).addrs /\ "AddrList" \in OpsOf(r)

C19_Witness ==
    \E p \in Procs :
        /\ EnsureReturnedNil(proc[p]) /\ ~proc[p].n.IsGW
        /\ "LinkSetUp" \in OpsOf(proc[p]) /\ proc[p].brBefore.addrs # {}

(***************************************************************************)
(* C20.  A call that returned an error to the plugin, other than "exists"  *)
(* from LinkAdd or from the host route and "no such interface" in Detach,  *)
(* makes cmdAdd or cmdDel return an error: the process is at main's exit   *)
(* with an error, or on its way out of the namespace-scoped function with  *)
(* one; it has issued no call since except the switch back to the host     *)
(* namespace, and no call is issued twice in a row.                        *)
(***************************************************************************)
ReturnPcs == {"bridge:return", "veth:return", "bridge:delReturn", "veth:delReturn"}

Untolerated(r) == r.kerr \ Tolerated

====
